---- MODULE Spec2Model ----
(***************************************************************************)
(* Model of src/league-1.py: the score-based bot of "Unleash the Geek".    *)
(* The Game object is the record `game`; init() builds it from a layout,   *)
(* parse() overwrites the per-tile fields from the referee's snapshot and  *)
(* game_turn() emits the action list.  Scores are the source's float       *)
(* weights, all of which are whole numbers, kept as integers.              *)
(***************************************************************************)
EXTENDS Integers, Sequences, FiniteSets

VARIABLES game, layout, snapshot, actions, output, pc

vars == <<game, layout, snapshot, actions, output, pc>>

\* ------------------------------------------------------------------------
\* Bounds of the referee's boards (not program constants)
\* ------------------------------------------------------------------------
MaxTracks == 2

\* The tracks on the boards the path search is tried on
MaxPathTracks == 1

MaxDisruptions == 3

\* ------------------------------------------------------------------------
\* Constants of the source
\* ------------------------------------------------------------------------
TERRAIN_PLAINS == 0

TERRAIN_RIVER == 1

TERRAIN_MOUNTAIN == 2

TERRAIN_POI == 3

NO_TRACK_OWNER == -1

NEUTRAL_TRACK_OWNER == 2

PAINT_COST ==
  [t \in {TERRAIN_PLAINS, TERRAIN_RIVER, TERRAIN_MOUNTAIN, TERRAIN_POI} |->
     CASE t = TERRAIN_PLAINS -> 1
       [] t = TERRAIN_RIVER -> 2
       [] t = TERRAIN_MOUNTAIN -> 3
       [] t = TERRAIN_POI -> 3]

\* The weights before the tuning the source's comments record
TrackEquationWeights_Before ==
  [base_score |-> 100,
   terrain_cost_weight |-> -10,
   region_has_town_weight |-> 5,
   on_shortest_path_weight |-> 25,
   adjacent_to_my_track_weight |-> 25,
   instability_weight |-> -15,
   existing_track_penalty |-> -1000,
   inked_penalty |-> -2000]

TrackEquationWeights ==
  [base_score |-> 100,
   terrain_cost_weight |-> -5,
   region_has_town_weight |-> 2,
   on_shortest_path_weight |-> 40,
   adjacent_to_my_track_weight |-> 25,
   instability_weight |-> -15,
   existing_track_penalty |-> -1000,
   inked_penalty |-> -2000]

DisruptionEquationWeights ==
  [base_score |-> 50,
   opponent_tracks_weight |-> 30,
   my_tracks_weight |-> -50,
   adjacent_to_town_weight |-> 20,
   already_inked_penalty |-> -3000]

AvailablePaint == 3

\* ------------------------------------------------------------------------
\* Sequence helpers (Python list semantics)
\* ------------------------------------------------------------------------
Range(s) == {s[i] : i \in 1..Len(s)}

\* path[1:-1]
Slice1ToLast(s) == IF Len(s) <= 2 THEN <<>> ELSE SubSeq(s, 2, Len(s) - 1)

\* range(height) x range(width): the scan order of every double loop (y outer)
ScanOrder(width, height) ==
  [i \in 1..(width * height) |-> <<(i - 1) % width, (i - 1) \div width>>]

CoordsOf(width, height) == (0..(width - 1)) \X (0..(height - 1))

\* ------------------------------------------------------------------------
\* Grid and tile access
\* ------------------------------------------------------------------------
get_tile(G, coord) == G.grid.tiles[coord]

\* region_by_id is a dict: a sequence of Region records in insertion order
RegionIndex(regions, id) == CHOOSE i \in 1..Len(regions) : regions[i].id = id

RegionById(G, id) == G.region_by_id[RegionIndex(G.region_by_id, id)]

get_region_at(G, coord) == RegionById(G, get_tile(G, coord).region_id)

\* None is modelled as the empty sequence, a found town as <<town>>
get_town_by_id(G, town_id) ==
  LET found == SelectSeq(G.towns, LAMBDA t : t.id = town_id)
  IN IF found = <<>> THEN <<>> ELSE <<Head(found)>>

is_valid_coord(width, height, coord) ==
  /\ 0 <= coord[1] /\ coord[1] < width
  /\ 0 <= coord[2] /\ coord[2] < height

has_track(tile) == tile.tracks_owner # NO_TRACK_OWNER

is_my_track(tile, player_id) == tile.tracks_owner = player_id

is_neutral_track(tile) == tile.tracks_owner = NEUTRAL_TRACK_OWNER

is_destroyed(region) == region.inked

can_be_disrupted(region) == ~region.inked

Directions(coord) ==
  << <<coord[1], coord[2] - 1>>,
     <<coord[1] + 1, coord[2]>>,
     <<coord[1], coord[2] + 1>>,
     <<coord[1] - 1, coord[2]>> >>

is_passable(G, coord) ==
  IF ~is_valid_coord(G.grid.width, G.grid.height, coord)
  THEN FALSE
  ELSE ~get_tile(G, coord).inked

\* The neighbours taken from the cache without the inked filter
get_neighbors_IgnoreInk(G, coord) ==
  IF coord \in DOMAIN G.all_neighbors_cache
  THEN G.all_neighbors_cache[coord]
  ELSE SelectSeq(Directions(coord), LAMBDA d : is_passable(G, d))

get_neighbors(G, coord) ==
  IF coord \in DOMAIN G.all_neighbors_cache
  THEN SelectSeq(G.all_neighbors_cache[coord], LAMBDA n : ~get_tile(G, n).inked)
  ELSE SelectSeq(Directions(coord), LAMBDA d : is_passable(G, d))

get_tile_cost(G, coord) ==
  LET t == get_tile(G, coord).type
  IN IF t \in DOMAIN PAINT_COST THEN PAINT_COST[t] ELSE 1

\* ------------------------------------------------------------------------
\* Path search
\* ------------------------------------------------------------------------
\* The for loop over get_neighbors(current): unvisited neighbours are marked
\* visited and queued with the path that reaches them.
RECURSIVE ExpandNeighbors(_, _, _, _)
ExpandNeighbors(neighbors, path, queue, visited) ==
  IF neighbors = <<>>
  THEN [queue |-> queue, visited |-> visited]
  ELSE LET neighbor == Head(neighbors)
       IN IF neighbor \notin visited
          THEN ExpandNeighbors(Tail(neighbors), path,
                               Append(queue, <<neighbor, Append(path, neighbor)>>),
                               visited \cup {neighbor})
          ELSE ExpandNeighbors(Tail(neighbors), path, queue, visited)

\* The while loop over the deque
RECURSIVE BfsLoop(_, _, _, _)
BfsLoop(G, queue, visited, goal) ==
  IF queue = <<>>
  THEN <<>>
  ELSE LET current == Head(queue)[1]
           path == Head(queue)[2]
       IN IF current = goal
          THEN Slice1ToLast(path)
          ELSE LET e == ExpandNeighbors(get_neighbors(G, current), path,
                                        Tail(queue), visited)
               IN BfsLoop(G, e.queue, e.visited, goal)

_find_shortest_path_bfs(G, start, goal) ==
  IF start = goal
  THEN <<>>
  ELSE BfsLoop(G, << <<start, <<start>> >> >>, {start}, goal)

\* The paths of the double loop over towns and their desired ids: a desired
\* id that names no town is skipped, an empty path adds nothing.
DesiredPathTiles(G) ==
  UNION {Range(_find_shortest_path_bfs(G, G.towns[p[1]].coord,
                 get_town_by_id(G, G.towns[p[1]].desired_connections[p[2]])[1].coord)) :
           p \in {q \in UNION {{t} \X DOMAIN G.towns[t].desired_connections :
                                 t \in DOMAIN G.towns} :
                    get_town_by_id(G, G.towns[q[1]].desired_connections[q[2]]) # <<>>}}

\* shortest_path_tiles updated without the reset to set()
_compute_shortest_paths_between_towns_NoReset(G) ==
  G.shortest_path_tiles \cup DesiredPathTiles(G)

\* The new value of shortest_path_tiles: reset to set(), then updated
_compute_shortest_paths_between_towns(G) == DesiredPathTiles(G)

_is_on_shortest_path_between_towns(G, coord) == coord \in G.shortest_path_tiles

_is_town_location(G, coord) == coord \in G.town_coords

_is_adjacent_to_town_region(G, region) == region.id \in G.regions_adjacent_to_towns

_is_adjacent_to_my_track(G, coord) ==
  IF coord \notin DOMAIN G.all_neighbors_cache
  THEN FALSE
  ELSE \E i \in 1..Len(G.all_neighbors_cache[coord]) :
         is_my_track(get_tile(G, G.all_neighbors_cache[coord][i]), G.my_id)

\* (my_tracks, opponent_tracks, neutral_tracks) of a region
_count_tracks_in_region(G, region) ==
  LET opponent_id == 1 - G.my_id
      cs == Range(region.coords)
      mine == {c \in cs : is_my_track(get_tile(G, c), G.my_id)}
      theirs == {c \in cs \ mine : is_my_track(get_tile(G, c), opponent_id)}
      neutral == {c \in (cs \ mine) \ theirs : is_neutral_track(get_tile(G, c))}
  IN <<Cardinality(mine), Cardinality(theirs), Cardinality(neutral)>>

\* ------------------------------------------------------------------------
\* init(): the Game after construction from a layout
\* ------------------------------------------------------------------------
\* The scan that builds region_by_id: a region is created when its id is first
\* met and every coordinate is appended to its region's coords.
RECURSIVE BuildRegions(_, _, _)
BuildRegions(L, scan, regions) ==
  IF scan = <<>>
  THEN regions
  ELSE LET coord == Head(scan)
           region_id == L.region_id[coord]
           known == \E i \in 1..Len(regions) : regions[i].id = region_id
           rs == IF known
                 THEN regions
                 ELSE Append(regions, [id |-> region_id, instability |-> 0,
                                       inked |-> FALSE, coords |-> <<>>,
                                       has_town |-> FALSE])
           k == RegionIndex(rs, region_id)
       IN BuildRegions(L, Tail(scan),
                       [rs EXCEPT ![k].coords = Append(@, coord)])

\* The town loop's get_region_at(coord).has_town = True
MarkTownRegions(L, regions) ==
  [k \in 1..Len(regions) |->
     [regions[k] EXCEPT !.has_town =
        \E i \in 1..Len(L.towns) : L.region_id[L.towns[i].coord] = regions[k].id]]

\* Step 1 of _precompute_static_data
AllNeighborsCache(width, height) ==
  [coord \in CoordsOf(width, height) |->
     SelectSeq(Directions(coord), LAMBDA d : is_valid_coord(width, height, d))]

\* Step 2 of _precompute_static_data
RegionAdjacency(L, cache, regions) ==
  [region_id \in {regions[k].id : k \in 1..Len(regions)} |->
     {L.region_id[n] : n \in UNION {Range(cache[c]) :
                                      c \in {d \in DOMAIN cache : L.region_id[d] = region_id}}}
       \ {region_id}]

\* Step 3 of _precompute_static_data
RegionsAdjacentToTowns(regions, adjacency) ==
  UNION {adjacency[regions[k].id] : k \in {j \in 1..Len(regions) : regions[j].has_town}}

init(L) ==
  LET tiles == [coord \in CoordsOf(L.width, L.height) |->
                  [region_id |-> L.region_id[coord],
                   type |-> L.type[coord],
                   tracks_owner |-> -1,
                   inked |-> FALSE,
                   instability |-> 0,
                   part_of_active_connections |-> <<>>]]
      regions == MarkTownRegions(L, BuildRegions(L, ScanOrder(L.width, L.height), <<>>))
      cache == AllNeighborsCache(L.width, L.height)
      adjacency == RegionAdjacency(L, cache, regions)
      G0 == [my_id |-> L.my_id,
             grid |-> [width |-> L.width, height |-> L.height, tiles |-> tiles],
             towns |-> L.towns,
             region_by_id |-> regions,
             town_coords |-> {L.towns[i].coord : i \in 1..Len(L.towns)},
             all_neighbors_cache |-> cache,
             region_adjacency |-> adjacency,
             regions_adjacent_to_towns |-> RegionsAdjacentToTowns(regions, adjacency),
             shortest_path_tiles |-> {}]
  IN [G0 EXCEPT !.shortest_path_tiles = _compute_shortest_paths_between_towns(G0)]

\* ------------------------------------------------------------------------
\* parse(): one snapshot read into the Game.  my_score and foe_score are
\* read and stored but nothing reads them; they are left out.
\* ------------------------------------------------------------------------
\* parse() without the recomputation of the shortest paths at its end
parse_NoRecompute(G, snap) ==
  [G EXCEPT !.grid.tiles =
     [coord \in DOMAIN G.grid.tiles |->
        [G.grid.tiles[coord] EXCEPT
           !.tracks_owner = snap[coord].tracks_owner,
           !.inked = snap[coord].inked,
           !.instability = snap[coord].instability,
           !.part_of_active_connections =
              snap[coord].part_of_active_connections]]]

parse(G, snap) ==
  LET G1 == [G EXCEPT !.grid.tiles =
               [coord \in DOMAIN G.grid.tiles |->
                  [G.grid.tiles[coord] EXCEPT
                     !.tracks_owner = snap[coord].tracks_owner,
                     !.inked = snap[coord].inked,
                     !.instability = snap[coord].instability,
                     !.part_of_active_connections =
                        snap[coord].part_of_active_connections]]]
  IN [G1 EXCEPT !.shortest_path_tiles = _compute_shortest_paths_between_towns(G1)]

\* ------------------------------------------------------------------------
\* Scoring
\* ------------------------------------------------------------------------
calculate_track_score(G, coord) ==
  LET tile == get_tile(G, coord)
      region == get_region_at(G, coord)
      w == TrackEquationWeights
  IN IF tile.inked THEN w.inked_penalty
     ELSE IF has_track(tile) THEN w.existing_track_penalty
     ELSE w.base_score
          + w.terrain_cost_weight * get_tile_cost(G, coord)
          + (IF region.has_town THEN w.region_has_town_weight ELSE 0)
          + (IF _is_on_shortest_path_between_towns(G, coord)
             THEN w.on_shortest_path_weight ELSE 0)
          + (IF _is_adjacent_to_my_track(G, coord)
             THEN w.adjacent_to_my_track_weight ELSE 0)
          + w.instability_weight * tile.instability

\* The disruption score without the has_town exclusion
calculate_disruption_score_NoTownCheck(G, region_id) ==
  LET region == RegionById(G, region_id)
      w == DisruptionEquationWeights
      counts == _count_tracks_in_region(G, region)
  IN IF is_destroyed(region) THEN w.already_inked_penalty
     ELSE w.base_score
          + w.opponent_tracks_weight * counts[2]
          + w.my_tracks_weight * counts[1]
          + (IF _is_adjacent_to_town_region(G, region)
             THEN w.adjacent_to_town_weight ELSE 0)

\* The disruption score with a bonus for the instability of the region's tiles
calculate_disruption_score_WithInstability(G, region_id) ==
  LET region == RegionById(G, region_id)
      w == DisruptionEquationWeights
      counts == _count_tracks_in_region(G, region)
  IN IF is_destroyed(region) THEN w.already_inked_penalty
     ELSE IF region.has_town THEN w.already_inked_penalty
     ELSE w.base_score
          + w.opponent_tracks_weight * counts[2]
          + w.my_tracks_weight * counts[1]
          + (IF _is_adjacent_to_town_region(G, region)
             THEN w.adjacent_to_town_weight ELSE 0)
          + 10 * get_tile(G, region.coords[1]).instability

calculate_disruption_score(G, region_id) ==
  LET region == RegionById(G, region_id)
      w == DisruptionEquationWeights
      counts == _count_tracks_in_region(G, region)
  IN IF is_destroyed(region) THEN w.already_inked_penalty
     ELSE IF region.has_town THEN w.already_inked_penalty
     ELSE w.base_score
          + w.opponent_tracks_weight * counts[2]
          + w.my_tracks_weight * counts[1]
          + (IF _is_adjacent_to_town_region(G, region)
             THEN w.adjacent_to_town_weight ELSE 0)

\* list.sort(key=score, reverse=True): a stable sort, so items of equal score
\* keep the order in which they were appended.
\* An insertion that puts an item before the items of equal score
RECURSIVE InsertByScore_TiesFirst(_, _)
InsertByScore_TiesFirst(sorted, item) ==
  IF sorted = <<>>
  THEN <<item>>
  ELSE IF Head(sorted)[2] > item[2]
       THEN <<Head(sorted)>> \o InsertByScore_TiesFirst(Tail(sorted), item)
       ELSE <<item>> \o sorted

RECURSIVE InsertByScore(_, _)
InsertByScore(sorted, item) ==
  IF sorted = <<>>
  THEN <<item>>
  ELSE IF Head(sorted)[2] >= item[2]
       THEN <<Head(sorted)>> \o InsertByScore(Tail(sorted), item)
       ELSE <<item>> \o sorted

RECURSIVE SortByScoreDescending(_)
SortByScoreDescending(items) ==
  IF items = <<>>
  THEN <<>>
  ELSE InsertByScore(SortByScoreDescending(SubSeq(items, 1, Len(items) - 1)),
                     items[Len(items)])

\* The candidate scan without the town-location exclusion
get_all_placeable_tiles_with_scores_TownsToo(G) ==
  LET scan == ScanOrder(G.grid.width, G.grid.height)
      placeable == SelectSeq(scan, LAMBDA coord :
                     ~(\/ has_track(get_tile(G, coord))
                       \/ get_tile(G, coord).inked))
      scored_tiles == [i \in 1..Len(placeable) |->
                         <<placeable[i], calculate_track_score(G, placeable[i])>>]
  IN SortByScoreDescending(scored_tiles)

get_all_placeable_tiles_with_scores(G) ==
  LET scan == ScanOrder(G.grid.width, G.grid.height)
      placeable == SelectSeq(scan, LAMBDA coord :
                     ~(\/ has_track(get_tile(G, coord))
                       \/ get_tile(G, coord).inked
                       \/ _is_town_location(G, coord)))
      scored_tiles == [i \in 1..Len(placeable) |->
                         <<placeable[i], calculate_track_score(G, placeable[i])>>]
  IN SortByScoreDescending(scored_tiles)

get_all_disruptable_regions_with_scores(G) ==
  LET disruptable == SelectSeq(G.region_by_id, LAMBDA region : can_be_disrupted(region))
      scored_regions == [i \in 1..Len(disruptable) |->
                           <<disruptable[i].id,
                             calculate_disruption_score(G, disruptable[i].id)>>]
  IN SortByScoreDescending(scored_regions)

\* ------------------------------------------------------------------------
\* game_turn()
\* ------------------------------------------------------------------------
\* The placement loop without the cost <= available_paint test
RECURSIVE PlaceTracksLoop_NoCostCheck(_, _, _)
PlaceTracksLoop_NoCostCheck(G, scored_tiles, available_paint) ==
  IF scored_tiles = <<>>
  THEN <<>>
  ELSE LET coord == Head(scored_tiles)[1]
           score == Head(scored_tiles)[2]
           left == available_paint - get_tile_cost(G, coord)
           placed == << <<"PLACE_TRACKS", coord[1], coord[2]>> >>
       IN IF score <= 0
          THEN <<>>
          ELSE IF left <= 0
               THEN placed
               ELSE placed \o PlaceTracksLoop_NoCostCheck(G, Tail(scored_tiles), left)

\* The placement loop over scored_tiles with the paint still available
RECURSIVE PlaceTracksLoop(_, _, _)
PlaceTracksLoop(G, scored_tiles, available_paint) ==
  IF scored_tiles = <<>>
  THEN <<>>
  ELSE LET coord == Head(scored_tiles)[1]
           score == Head(scored_tiles)[2]
           cost == get_tile_cost(G, coord)
           placed == IF cost <= available_paint
                     THEN << <<"PLACE_TRACKS", coord[1], coord[2]>> >>
                     ELSE <<>>
           left == IF cost <= available_paint
                   THEN available_paint - cost
                   ELSE available_paint
       IN IF score <= 0
          THEN <<>>
          ELSE IF left <= 0
               THEN placed
               ELSE placed \o PlaceTracksLoop(G, Tail(scored_tiles), left)

\* The disruption choice taking the last entry of the sorted list
DisruptBest_Last(scored_regions) ==
  IF scored_regions # <<>> /\ scored_regions[Len(scored_regions)][2] > 0
  THEN << <<"DISRUPT", scored_regions[Len(scored_regions)][1]>> >>
  ELSE <<>>

DisruptBest(scored_regions) ==
  IF scored_regions # <<>> /\ scored_regions[1][2] > 0
  THEN << <<"DISRUPT", scored_regions[1][1]>> >>
  ELSE <<>>

game_turn(G) ==
  PlaceTracksLoop(G, get_all_placeable_tiles_with_scores(G), AvailablePaint)
    \o DisruptBest(get_all_disruptable_regions_with_scores(G))

\* print(";".join(actions)) or print("WAIT")
Printed(acts) == IF acts # <<>> THEN acts ELSE << <<"WAIT">> >>

\* ------------------------------------------------------------------------
\* The boards the referee deals: three small layouts
\* ------------------------------------------------------------------------
\* 3x3, one region, all plains, no towns
PlainBoard ==
  [width |-> 3, height |-> 3, my_id |-> 0,
   region_id |-> [c \in CoordsOf(3, 3) |-> 0],
   type |-> [c \in CoordsOf(3, 3) |-> TERRAIN_PLAINS],
   towns |-> <<>>]

\* 4x2, the towns at both ends of the top row and a town-free region
\* between them; town 0's region runs along the bottom row, town 1's is the
\* last column; town 0 wants town 1
TwoTownsBoard ==
  [width |-> 4, height |-> 2, my_id |-> 0,
   region_id |-> [c \in CoordsOf(4, 2) |->
                    CASE c[1] = 3 -> 1 [] c \in {<<1, 0>>, <<2, 0>>} -> 0 [] OTHER -> 2],
   type |-> [c \in CoordsOf(4, 2) |->
               CASE c = <<2, 0>> -> TERRAIN_RIVER
                 [] c = <<0, 1>> -> TERRAIN_RIVER
                 [] c = <<2, 1>> -> TERRAIN_MOUNTAIN
                 [] OTHER -> TERRAIN_PLAINS],
   towns |-> << [id |-> 0, coord |-> <<0, 0>>, desired_connections |-> <<1>>],
                [id |-> 1, coord |-> <<3, 0>>, desired_connections |-> <<>>] >>]

\* 3x2, the top row is the towns' region, two town-free regions below; the
\* towns want each other and town 3 also names a town that does not exist
TownRowBoard ==
  [width |-> 3, height |-> 2, my_id |-> 1,
   region_id |-> [c \in CoordsOf(3, 2) |->
                    CASE c[2] = 0 -> 4 [] c = <<0, 1>> -> 1 [] OTHER -> 2],
   type |-> [c \in CoordsOf(3, 2) |->
               CASE c = <<0, 1>> -> TERRAIN_POI
                 [] c = <<2, 1>> -> TERRAIN_RIVER
                 [] OTHER -> TERRAIN_PLAINS],
   towns |-> << [id |-> 3, coord |-> <<0, 0>>, desired_connections |-> <<7, 9>>],
                [id |-> 7, coord |-> <<2, 0>>, desired_connections |-> <<3>>] >>]

Layouts == {PlainBoard, TwoTownsBoard, TownRowBoard}

\* ------------------------------------------------------------------------
\* The referee's snapshots: every tile of a region carries the region's
\* instability, inked is instability >= 3, a region with a town is never
\* disrupted, and the board holds a bounded number of tracks and at most
\* MaxDisruptions disruption points.
\* ------------------------------------------------------------------------
LayoutCoords(L) == CoordsOf(L.width, L.height)

RegionIds(L) == {L.region_id[c] : c \in LayoutCoords(L)}

TownRegionIds(L) == {L.region_id[L.towns[i].coord] : i \in 1..Len(L.towns)}

BlankSnapshot(L) ==
  [c \in LayoutCoords(L) |->
     [tracks_owner |-> -1, instability |-> 0, inked |-> FALSE,
      part_of_active_connections |-> <<>>]]

SnapTrackCount(snap) ==
  Cardinality({c \in DOMAIN snap : snap[c].tracks_owner # -1})

SnapRegionInstability(L, snap, r) ==
  snap[CHOOSE c \in LayoutCoords(L) : L.region_id[c] = r].instability

SnapDisruptions(L, snap) ==
  Cardinality({p \in RegionIds(L) \X (1..3) : SnapRegionInstability(L, snap, p[1]) >= p[2]})

WithOwner(snap, coord, owner) == [snap EXCEPT ![coord].tracks_owner = owner]

WithInstability(L, snap, r, level) ==
  [c \in DOMAIN snap |->
     IF L.region_id[c] = r
     THEN [snap[c] EXCEPT !.instability = level, !.inked = (level >= 3)]
     ELSE snap[c]]

\* The snapshots that can follow snap: the same board, one tile's track
\* changed, or one town-free region's instability moved by one
NextSnapshots(L, snap, max_tracks) ==
  LET changed ==
        {snap}
        \cup {WithOwner(snap, c, o) : c \in LayoutCoords(L), o \in {-1, 0, 1, 2}}
        \cup {WithInstability(L, snap, r, v) :
                r \in RegionIds(L) \ TownRegionIds(L), v \in 0..3}
  IN {s \in changed : /\ SnapTrackCount(s) <= max_tracks
                      /\ SnapDisruptions(L, s) <= MaxDisruptions
                      /\ \A r \in RegionIds(L) :
                           LET d == SnapRegionInstability(L, s, r)
                                    - SnapRegionInstability(L, snap, r)
                           IN d \in {-1, 0, 1}}

\* ------------------------------------------------------------------------
\* The program: init(), then parse() and game_turn() in turn, for ever.
\* actions is game_turn's list and output the line it printed this turn;
\* the referee has taken the line by the time it sends the next snapshot.
\* ------------------------------------------------------------------------
Init ==
  /\ layout \in Layouts
  /\ game = init(layout)
  /\ snapshot = BlankSnapshot(layout)
  /\ actions = <<>>
  /\ output = <<>>
  /\ pc = "parse"

ParseOneOf(snapshots) ==
  /\ pc = "parse"
  /\ \E snap \in snapshots :
       /\ snapshot' = snap
       /\ game' = parse(game, snap)
  /\ actions' = <<>>
  /\ output' = <<>>
  /\ pc' = "game_turn"
  /\ UNCHANGED layout

Parse == ParseOneOf(NextSnapshots(layout, snapshot, MaxTracks))

GameTurn ==
  /\ pc = "game_turn"
  /\ actions' = game_turn(game)
  /\ output' = Printed(game_turn(game))
  /\ pc' = "parse"
  /\ UNCHANGED <<game, layout, snapshot>>

Next == Parse \/ GameTurn

Spec == Init /\ [][Next]_vars

\* The same program on boards of at most MaxPathTracks tracks: the boards
\* the path search, which reads the ink alone, is tried on
PathParse == ParseOneOf(NextSnapshots(layout, snapshot, MaxPathTracks))

PathNext == PathParse \/ GameTurn

PathSpec == Init /\ [][PathNext]_vars

\* ------------------------------------------------------------------------
\* Vocabulary of the properties
\* ------------------------------------------------------------------------
\* game_turn has just answered the snapshot in `snapshot`
TurnDone == pc = "parse" /\ output # <<>>

PlaceActions(acts) == SelectSeq(acts, LAMBDA a : a[1] = "PLACE_TRACKS")

DisruptActions(acts) == SelectSeq(acts, LAMBDA a : a[1] = "DISRUPT")

\* The resource schedule of the external contract, by terrain kind
ScheduleCost(kind) ==
  CASE kind = TERRAIN_PLAINS -> 1
    [] kind = TERRAIN_RIVER -> 2
    [] kind = TERRAIN_MOUNTAIN -> 3
    [] kind = TERRAIN_POI -> 3

RECURSIVE TotalScheduleCost(_, _)
TotalScheduleCost(L, places) ==
  IF places = <<>>
  THEN 0
  ELSE ScheduleCost(L.type[<<Head(places)[2], Head(places)[3]>>])
       + TotalScheduleCost(L, Tail(places))

RegionCoords(L, r) == {c \in LayoutCoords(L) : L.region_id[c] = r}

RegionHasTown(L, r) == r \in TownRegionIds(L)

SnapRegionInked(L, snap, r) == \E c \in RegionCoords(L, r) : snap[c].inked

SnapOwnerCount(L, snap, r, owner) ==
  Cardinality({c \in RegionCoords(L, r) : snap[c].tracks_owner = owner})

\* ------------------------------------------------------------------------
\* C1: the PLACE_TRACKS actions of one turn name tiles whose terrain costs
\* (plain 1, river 2, mountain 3, point of interest 3) sum to at most 3.
\* ------------------------------------------------------------------------
C1_PaintBudget ==
  TurnDone => TotalScheduleCost(layout, PlaceActions(actions)) <= 3

\* A turn that spends the whole budget on a river and a plain
C1_Witness ==
  /\ TurnDone
  /\ Len(PlaceActions(actions)) = 2
  /\ TotalScheduleCost(layout, PlaceActions(actions)) = 3

\* ------------------------------------------------------------------------
\* C2: an inked region is never selected for disruption: DISRUPT r names a
\* region whose tiles are not inked in the current snapshot, and an inked
\* region scores the sentinel, strictly below every legal (non-inked,
\* town-free) region.
\* ------------------------------------------------------------------------
C2_InkedNeverDisrupted ==
  TurnDone =>
    /\ \A i \in 1..Len(actions) :
         actions[i][1] = "DISRUPT" => ~SnapRegionInked(layout, snapshot, actions[i][2])
    /\ \A r \in RegionIds(layout) :
         SnapRegionInked(layout, snapshot, r) =>
           /\ calculate_disruption_score(game, r)
                = DisruptionEquationWeights.already_inked_penalty
           /\ \A q \in RegionIds(layout) :
                (~SnapRegionInked(layout, snapshot, q) /\ ~RegionHasTown(layout, q))
                  => calculate_disruption_score(game, r)
                       < calculate_disruption_score(game, q)

\* ------------------------------------------------------------------------
\* C3: a region that contains a town is never selected for disruption:
\* DISRUPT r names a region with has_town = false.
\* ------------------------------------------------------------------------
C3_TownRegionNeverDisrupted ==
  TurnDone =>
    \A i \in 1..Len(actions) :
      actions[i][1] = "DISRUPT" =>
        /\ ~RegionById(game, actions[i][2]).has_town
        /\ ~RegionHasTown(layout, actions[i][2])

\* A turn that disrupts although a town's region holds two opponent tracks
C3_Witness ==
  /\ TurnDone
  /\ DisruptActions(actions) # <<>>
  /\ \E r \in TownRegionIds(layout) :
       SnapOwnerCount(layout, snapshot, r, 1 - layout.my_id) = 2

\* ------------------------------------------------------------------------
\* C4: a turn emits at most one DISRUPT; it names a region of maximum
\* disruption score among the candidates and is emitted exactly when that
\* maximum is strictly positive.
\* ------------------------------------------------------------------------
DisruptCandidates(G) ==
  {G.region_by_id[k].id : k \in {j \in 1..Len(G.region_by_id) :
                                   can_be_disrupted(G.region_by_id[j])}}

IsMaxCandidate(G, r) ==
  /\ r \in DisruptCandidates(G)
  /\ \A q \in DisruptCandidates(G) :
       calculate_disruption_score(G, q) <= calculate_disruption_score(G, r)

C4_OneBestDisrupt ==
  TurnDone =>
    LET ds == DisruptActions(actions)
        positive == \E r \in DisruptCandidates(game) :
                      calculate_disruption_score(game, r) > 0
    IN /\ Len(ds) <= 1
       /\ Len(ds) = 1 <=> positive
       /\ Len(ds) = 1 => IsMaxCandidate(game, ds[1][2])

\* A turn that disrupts the best of candidates with different scores
C4_Witness ==
  /\ TurnDone
  /\ Len(DisruptActions(actions)) = 1
  /\ \E q \in DisruptCandidates(game) :
       /\ calculate_disruption_score(game, q) > 0
       /\ calculate_disruption_score(game, q)
            < calculate_disruption_score(game, DisruptActions(actions)[1][2])

\* ------------------------------------------------------------------------
\* C5: the action list is a function of the initial layout and the latest
\* snapshot only: whatever snapshots came before, the turn's actions are
\* those of a run that was initialised with the same layout and has read
\* this snapshot alone (so any two runs with the same layout and the same
\* latest snapshot emit the same list).
\* ------------------------------------------------------------------------
C5_LatestSnapshotDecides ==
  TurnDone =>
    /\ actions = game_turn(parse(init(layout), snapshot))
    /\ output = Printed(game_turn(parse(init(layout), snapshot)))

\* A turn answered after ink has moved the towns' path off its first route
C5_Witness ==
  /\ TurnDone
  /\ game.shortest_path_tiles # {}
  /\ game.shortest_path_tiles \cap init(layout).shortest_path_tiles = {}
  /\ PlaceActions(actions) # <<>>

\* ------------------------------------------------------------------------
\* C6: placement candidates are walked in descending score order, equal
\* scores in ascending row-major order (y, then x); on the 3x3 all-plain
\* one-region board with no towns and no tracks (and not inked) all nine
\* tiles score the same and the turn places (0,0), (1,0), (2,0) in that order.
\* ------------------------------------------------------------------------
RowMajor(G, coord) == coord[2] * G.grid.width + coord[1]

\* a, scoring sa, is walked before b, scoring sb
InWalkOrder(G, a, sa, b, sb) ==
  \/ sa > sb
  \/ sa = sb /\ RowMajor(G, a) < RowMajor(G, b)

C6_WalkOrder ==
  /\ pc = "game_turn" =>
       LET scored == get_all_placeable_tiles_with_scores(game)
       IN \A i \in 1..Len(scored) :
            /\ scored[i][2] = calculate_track_score(game, scored[i][1])
            /\ i < Len(scored) =>
                 InWalkOrder(game, scored[i][1], scored[i][2],
                             scored[i + 1][1], scored[i + 1][2])
  /\ TurnDone =>
       LET places == PlaceActions(actions)
           at == [i \in 1..Len(places) |-> <<places[i][2], places[i][3]>>]
       IN \A i \in 1..(Len(places) - 1) :
            InWalkOrder(game, at[i], calculate_track_score(game, at[i]),
                        at[i + 1], calculate_track_score(game, at[i + 1]))
  /\ (/\ TurnDone
      /\ layout = PlainBoard
      /\ \A c \in LayoutCoords(layout) :
           snapshot[c].tracks_owner = -1 /\ ~snapshot[c].inked)
       => /\ \A c, d \in LayoutCoords(layout) :
               calculate_track_score(game, c) = calculate_track_score(game, d)
          /\ PlaceActions(actions) = << <<"PLACE_TRACKS", 0, 0>>,
                                        <<"PLACE_TRACKS", 1, 0>>,
                                        <<"PLACE_TRACKS", 2, 0>> >>

\* The turn on the fresh 3x3 all-plain board
C6_Witness ==
  /\ TurnDone
  /\ layout = PlainBoard
  /\ snapshot = BlankSnapshot(layout)
  /\ Len(PlaceActions(actions)) = 3

\* ------------------------------------------------------------------------
\* C7: of two non-inked, town-free regions with the same own-track count,
\* the same opponent-track count (at least one) and the same town-adjacency,
\* the one at instability 2 scores strictly higher than the one at
\* instability 0.
\* ------------------------------------------------------------------------
\* r is at instability 2, q at instability 0, and they are otherwise alike
AlikeButInstability(r, q) ==
  /\ r \in RegionIds(layout) /\ q \in RegionIds(layout)
  /\ ~RegionHasTown(layout, r) /\ ~RegionHasTown(layout, q)
  /\ SnapRegionInstability(layout, snapshot, r) = 2
  /\ SnapRegionInstability(layout, snapshot, q) = 0
  /\ SnapOwnerCount(layout, snapshot, r, layout.my_id)
       = SnapOwnerCount(layout, snapshot, q, layout.my_id)
  /\ SnapOwnerCount(layout, snapshot, r, 1 - layout.my_id)
       = SnapOwnerCount(layout, snapshot, q, 1 - layout.my_id)
  /\ SnapOwnerCount(layout, snapshot, r, 1 - layout.my_id) >= 1
  /\ (r \in game.regions_adjacent_to_towns) = (q \in game.regions_adjacent_to_towns)

C7_UnstableScoresHigher ==
  pc = "game_turn" =>
    \A r, q \in RegionIds(layout) :
      AlikeButInstability(r, q) =>
        calculate_disruption_score(game, r) > calculate_disruption_score(game, q)

\* C7 as amended: the two regions have the same disruption score (the score
\* does not read instability).
C7_UnstableScoresEqual ==
  pc = "game_turn" =>
    \A r, q \in RegionIds(layout) :
      AlikeButInstability(r, q) =>
        calculate_disruption_score(game, r) = calculate_disruption_score(game, q)

\* A parsed board with two such regions
C7_Witness ==
  /\ pc = "game_turn"
  /\ \E r, q \in RegionIds(layout) : AlikeButInstability(r, q)

\* ------------------------------------------------------------------------
\* C8: shortest_path(from, to), for a `to` reachable from a distinct `from`,
\* is a minimum-length orthogonal path over non-inked tiles, `from` excluded
\* and `to` included as its last element; it is empty when from = to or when
\* `to` is unreachable.
\* ------------------------------------------------------------------------
Abs(n) == IF n < 0 THEN -n ELSE n

Manhattan(a, b) == Abs(a[1] - b[1]) + Abs(a[2] - b[2])

Orthogonal(a, b) == Manhattan(a, b) = 1

\* The number of orthogonal steps from the tiles of `frontier`, themselves k
\* steps from the start, to `to`, every tile entered being on the board and
\* not inked; -1 when `to` cannot be reached
RECURSIVE StepsTo(_, _, _, _, _)
StepsTo(G, seen, frontier, to, k) ==
  IF to \in frontier
  THEN k
  ELSE IF frontier = {}
       THEN -1
       ELSE StepsTo(G, seen \cup frontier,
                    {c \in DOMAIN G.grid.tiles \ (seen \cup frontier) :
                       /\ ~G.grid.tiles[c].inked
                       /\ \E n \in frontier : Orthogonal(n, c)},
                    to, k + 1)

Distance(G, from, to) == StepsTo(G, {}, {from}, to, 0)

Reachable(G, from, to) == Distance(G, from, to) >= 0

\* steps is an orthogonal walk that leaves `from` and enters only non-inked tiles
IsWalkFrom(G, from, steps) ==
  \A i \in 1..Len(steps) :
    /\ steps[i] \in DOMAIN G.grid.tiles
    /\ ~G.grid.tiles[steps[i]].inked
    /\ Orthogonal(IF i = 1 THEN from ELSE steps[i - 1], steps[i])

C8_PathEndsAtGoal ==
  pc = "game_turn" =>
  \A from, to \in DOMAIN game.grid.tiles :
    LET path == _find_shortest_path_bfs(game, from, to)
        steps == Distance(game, from, to)
    IN IF from = to \/ steps < 0
       THEN path = <<>>
       ELSE /\ path # <<>>
            /\ path[Len(path)] = to
            /\ from \notin Range(path)
            /\ Len(path) = steps
            /\ IsWalkFrom(game, from, path)

\* C8 as amended: the result leaves out both ends.  For a `to` reachable
\* from a distinct `from` it is the interior of a minimum-length orthogonal
\* path from `from` to `to` over non-inked tiles (one tile fewer than the
\* distance, so empty when the two are adjacent); it is empty when from = to
\* or when `to` is unreachable.
C8_PathInterior ==
  pc = "game_turn" =>
  \A from, to \in DOMAIN game.grid.tiles :
    LET path == _find_shortest_path_bfs(game, from, to)
        steps == Distance(game, from, to)
    IN IF from = to \/ steps < 0
       THEN path = <<>>
       ELSE /\ Len(path) = steps - 1
            /\ from \notin Range(path)
            /\ to \notin Range(path)
            /\ IsWalkFrom(game, from, Append(path, to))

\* A board where ink forces a detour and one where it cuts two tiles apart
C8_Witness ==
  /\ pc = "game_turn"
  /\ \E from, to \in DOMAIN game.grid.tiles :
       /\ Reachable(game, from, to)
       /\ Distance(game, from, to) > Manhattan(from, to)
       /\ Len(_find_shortest_path_bfs(game, from, to)) >= 3
  /\ \E from, to \in DOMAIN game.grid.tiles :
       from # to /\ ~Reachable(game, from, to)

\* ------------------------------------------------------------------------
\* C9: two towns, one desired connection between them, a clear straight
\* line from one to the other (no inked tile, instability 0 everywhere):
\* every empty non-town tile on the line scores strictly higher for placement
\* than every empty non-town tile off the line of the same terrain kind.
\* ------------------------------------------------------------------------
StraightLineBoard(L) ==
  /\ Len(L.towns) = 2
  /\ Len(L.towns[1].desired_connections) + Len(L.towns[2].desired_connections) = 1
  /\ \/ L.towns[1].desired_connections = <<L.towns[2].id>>
     \/ L.towns[2].desired_connections = <<L.towns[1].id>>
  /\ L.towns[1].id # L.towns[2].id
  /\ \/ L.towns[1].coord[1] = L.towns[2].coord[1]
     \/ L.towns[1].coord[2] = L.towns[2].coord[2]

\* The tiles strictly between the two towns
LineTiles(L) ==
  LET a == L.towns[1].coord
      b == L.towns[2].coord
  IN {c \in LayoutCoords(L) :
        /\ c # a /\ c # b
        /\ Manhattan(a, c) + Manhattan(c, b) = Manhattan(a, b)}

ClearSnapshot(snap) ==
  \A c \in DOMAIN snap : ~snap[c].inked /\ snap[c].instability = 0

EmptyNonTown(L, snap, c) ==
  /\ snap[c].tracks_owner = -1
  /\ \A i \in 1..Len(L.towns) : L.towns[i].coord # c

C9_OnPathScoresHigher ==
  (StraightLineBoard(layout) /\ ClearSnapshot(snapshot)) =>
    \A on \in LineTiles(layout) :
      \A off \in LayoutCoords(layout) \ LineTiles(layout) :
        (/\ EmptyNonTown(layout, snapshot, on)
         /\ EmptyNonTown(layout, snapshot, off)
         /\ layout.type[on] = layout.type[off])
          => calculate_track_score(game, on) > calculate_track_score(game, off)

\* An off-line tile that collects the town-region and the own-track bonus,
\* compared with a tile of the line that collects neither
C9_Witness ==
  /\ pc = "game_turn"
  /\ StraightLineBoard(layout) /\ ClearSnapshot(snapshot)
  /\ \E on \in LineTiles(layout) :
       \E off \in LayoutCoords(layout) \ LineTiles(layout) :
         /\ EmptyNonTown(layout, snapshot, on)
         /\ EmptyNonTown(layout, snapshot, off)
         /\ layout.type[on] = layout.type[off]
         /\ get_region_at(game, off).has_town
         /\ _is_adjacent_to_my_track(game, off)
         /\ ~get_region_at(game, on).has_town
         /\ ~_is_adjacent_to_my_track(game, on)

\* ------------------------------------------------------------------------
\* C10: after every parse the Region records agree with their tiles:
\* Region.instability and Region.inked are the values the snapshot gave the
\* region's tiles, so a region whose tiles are inked has is_destroyed() true
\* and can_be_disrupted() false.
\* ------------------------------------------------------------------------
C10_RegionsFollowSnapshot ==
  pc = "game_turn" =>
    \A k \in 1..Len(game.region_by_id) :
      LET region == game.region_by_id[k]
      IN \A c \in Range(region.coords) :
           /\ region.instability = snapshot[c].instability
           /\ region.inked = snapshot[c].inked
           /\ snapshot[c].inked => (is_destroyed(region) /\ ~can_be_disrupted(region))

\* ------------------------------------------------------------------------
\* C11: the path search treats as non-traversable every tile that is inked
\* or whose region's instability has reached the caution threshold
\* (instability 2): no path the BFS returns, and so no tile of the turn's
\* shortest-path set, lies in such a region.
\* ------------------------------------------------------------------------
\* The tiles of every path the search returns on the parsed board, with the
\* tiles of the turn's shortest-path set
PathTiles ==
  game.shortest_path_tiles
    \cup UNION {Range(_find_shortest_path_bfs(game, from, to)) :
                  from \in DOMAIN game.grid.tiles, to \in DOMAIN game.grid.tiles}

C11_PathsAvoidUnstable ==
  pc = "game_turn" =>
    \A c \in PathTiles : ~snapshot[c].inked /\ snapshot[c].instability < 2

\* C11 as amended: the path search treats as non-traversable the inked
\* tiles only; a tile whose region is at instability 2 stays traversable.
\* No path the BFS returns, and no tile of the turn's shortest-path set, is
\* inked.
C11_PathsAvoidInk ==
  pc = "game_turn" => \A c \in PathTiles : ~snapshot[c].inked

\* A parsed board whose towns' path runs through a region at instability 2
C11_Witness ==
  /\ pc = "game_turn"
  /\ game.shortest_path_tiles # {}
  /\ \A c \in game.shortest_path_tiles : snapshot[c].instability = 2

\* ------------------------------------------------------------------------
\* C12: every PLACE_TRACKS of a turn names a legal, worthwhile tile: in the
\* current snapshot it carries no track of any owner, is not inked and is no
\* town coordinate, its placement score is strictly positive, and no
\* coordinate is named twice in the turn.
\* ------------------------------------------------------------------------
PlacedAt(acts) ==
  [i \in 1..Len(PlaceActions(acts)) |->
     <<PlaceActions(acts)[i][2], PlaceActions(acts)[i][3]>>]

C12_PlacementsLegal ==
  TurnDone =>
    LET placed == PlacedAt(actions)
    IN /\ \A i \in 1..Len(placed) :
            /\ placed[i] \in LayoutCoords(layout)
            /\ snapshot[placed[i]].tracks_owner = -1
            /\ ~snapshot[placed[i]].inked
            /\ \A t \in 1..Len(layout.towns) : layout.towns[t].coord # placed[i]
            /\ calculate_track_score(game, placed[i]) > 0
       /\ \A i, j \in 1..Len(placed) : placed[i] = placed[j] => i = j

\* A turn that places on a board with towns, a neutral track, an opponent
\* track and a disrupted region
C12_Witness ==
  /\ TurnDone
  /\ Len(PlacedAt(actions)) >= 2
  /\ layout.towns # <<>>
  /\ \E c \in DOMAIN snapshot : snapshot[c].tracks_owner = NEUTRAL_TRACK_OWNER
  /\ \E c \in DOMAIN snapshot : snapshot[c].tracks_owner = 1 - layout.my_id
  /\ \E c \in DOMAIN snapshot : snapshot[c].instability > 0

====
